---- MODULE Spec2Model ----
(***************************************************************************)
(* pkg/extension/lint.go of ksbuilder: WithHelm (the generic helm lint     *)
(* over a list of chart paths) and WithBuiltins (the three extension       *)
(* rules: images, global.imageRegistry, global.nodeSelector).              *)
(*                                                                         *)
(* Calls into other packages (filepath.Walk, MergeValues, LoadMetadata,    *)
(* helm.Lint, engine.Render, yaml.Unmarshal) are answered by the           *)
(* environment: every action draws the answer from a small set at the      *)
(* moment the code makes the call.                                         *)
(***************************************************************************)
EXTENDS Integers, Sequences, FiniteSets, TLC

\* ------------------------------------------------------------------ bounds
MaxRoots == 1
MaxWalk == 1
MaxMsgs == 2
MaxErrs == 1
MaxImages == 2
MaxImgLen == 2
MaxText == 2
MaxContainers == 1
MaxDocs == 2

\* ----------------------------------------------------------- file names
\* A file name is its stem and its suffix; a path is a sequence of names.
Nm(stem, ext) == [stem |-> stem, ext |-> ext]

Join(p, rel) == p \o rel

\* filepath.Dir
Dir(path) == SubSeq(path, 1, Len(path) - 1)

\* os.FileInfo.Name(): the base name of the visited path
InfoName(path) == path[Len(path)]

\* strings.HasSuffix(path, suffix), for the suffixes the code asks about
HasSuffix(path, suffix) == path[Len(path)].ext = suffix

RootPaths == {<<Nm("ext1", "")>>, <<Nm("ext2", "")>>}

ChartsDir == <<Nm("charts", "")>>

\* What a walk of <root>/charts can visit, relative to that directory.
RelPaths ==
  { <<>>,
    <<Nm("a", ""), Nm("Chart", ".yaml")>>,
    <<Nm("b", ".tgz")>>,
    <<Nm("c", ".tar.gz")>>,
    <<Nm("values", ".yaml")>> }

\* The arguments filepath.Walk hands to the callback: a nil info always comes
\* with an error (a failed Lstat); a directory can come with its info and the
\* error of reading it.
WalkCalls(root) ==
  { [path |-> Join(Join(root, ChartsDir), rel), info |-> i, err |-> e] :
      rel \in RelPaths, i \in BOOLEAN, e \in BOOLEAN }

WalkCallOk(c) ==
  /\ (~c.info) => c.err
  /\ (c.info /\ c.err) => c.path[Len(c.path)].ext = ""

\* ------------------------------------------------------------ lint results
\* support.Severity of a lint message: InfoSev, WarningSev, ErrorSev
Severities == 1..3
InfoSev == 1

MsgSeqs ==
  UNION { { [i \in 1..k |-> [sev |-> f[i], text |-> i]] : f \in [1..k -> Severities] } :
          k \in 0..MaxMsgs }

\* action.LintResult: Messages, and Errors (here: how many)
LintResults == [Messages : MsgSeqs, Errors : 0..MaxErrs]

NoResult == [Messages |-> <<>>, Errors |-> 0]

\* action.HasWarningsOrErrors (helm): a message above InfoSev, or an error
HasWarningsOrErrors(result) ==
  \/ \E i \in 1..Len(result.Messages) : result.Messages[i].sev > InfoSev
  \/ result.Errors > 0

VARIABLES
  quiet,            \* o.Client.Quiet
  withSubcharts,    \* o.Client.WithSubcharts
  paths,            \* the paths argument, extended by the walk
  roots,            \* the slice the range statement of line 27 iterates
  hpc,              \* where WithHelm is
  rootIdx,          \* index of the root being walked
  walkCalls,        \* callback invocations so far
  walkErrMet,       \* an error was handed to the walk callback
  chartIdx,         \* index of the chart the lint loop is at
  result,           \* result of this iteration's helm.Lint call
  lintCalls,        \* the helm.Lint calls made: chart path, path of its metadata
  hardErrCharts,    \* how many results so far had Errors
  message,          \* the report buffer: the block headers written
  block,            \* the report buffer: the lines this iteration wrote under its header
  failed,
  errorsOrWarnings,
  hret,             \* what WithHelm returned
  summary,          \* the summary string
  summaryPrinted    \* the summary went to standard output (line 110)

hvars == <<quiet, withSubcharts, paths, roots, hpc, rootIdx, walkCalls, walkErrMet,
           chartIdx, result, lintCalls, hardErrCharts, message, block, failed,
           errorsOrWarnings, hret, summary, summaryPrinted>>

VARIABLES
  bpc,              \* where WithBuiltins is
  bret,             \* what WithBuiltins returned ("panic": it did not return)
  headers,          \* the "Info: lint <rule>" headers printed
  rendered,         \* the rules that called getTemplateFile
  printed,          \* the lines printed by the latest step, below the headers
  nImages,          \* len(ext.Metadata.Images)
  imageIdx,         \* index of the image lintExtensionsImages is at
  image,            \* that image
  files,            \* lintExtensionsImages: the rendered files, name -> content
  pending,          \* rules B and C: the rendered files not yet visited
  cur,              \* rules B and C: the file whose documents are being decoded
  docIdx,           \* index in yamlArr of the next document
  key,              \* rand.String(12)
  doc               \* the document the latest step decoded

bvars == <<bpc, bret, headers, rendered, printed, nImages, imageIdx, image, files,
           pending, cur, docIdx, key, doc>>

vars == <<hvars, bvars>>

NoSummary == [linted |-> -1, failed |-> -1]

\* ------------------------------------------------------------- WithHelm
RootLists == UNION { [1..k -> RootPaths] : k \in 0..MaxRoots }

HelmInit ==
  /\ quiet \in BOOLEAN
  /\ withSubcharts \in BOOLEAN
  /\ paths \in RootLists
  /\ roots = paths
  /\ hpc = IF withSubcharts THEN "walk" ELSE "merge"
  /\ rootIdx = 1
  /\ walkCalls = 0
  /\ walkErrMet = FALSE
  /\ chartIdx = 1
  /\ result = NoResult
  /\ lintCalls = <<>>
  /\ hardErrCharts = 0
  /\ message = <<>>
  /\ block = <<>>
  /\ failed = 0
  /\ errorsOrWarnings = 0
  /\ hret = "none"
  /\ summary = NoSummary
  /\ summaryPrinted = FALSE

\* A callback that hands the error it is given back to filepath.Walk
WalkFnReturnsError(call) == IF call.err THEN "err" ELSE "nil"

\* What the walk callback returns (line 36)
WalkFnReturn(call) == "nil"

\* The walk callback (lines 28-37): the extended path list and its return value
WalkFn(ps, call) ==
  [ paths |->
      IF call.info
      THEN IF InfoName(call.path) = Nm("Chart", ".yaml")
           THEN Append(ps, Dir(call.path))
           ELSE IF HasSuffix(call.path, ".tgz") \/ HasSuffix(call.path, ".tar.gz")
                THEN Append(ps, call.path)
                ELSE ps
      ELSE ps,
    err |-> WalkFnReturn(call) ]

\* filepath.Walk visits one more path of roots[rootIdx]/charts and calls the
\* callback; a non-nil return of the callback ends the walk with that error,
\* which WithHelm returns (lines 37-39).
WalkCall ==
  /\ hpc = "walk"
  /\ rootIdx <= Len(roots)
  /\ walkCalls < MaxWalk
  /\ \E call \in WalkCalls(roots[rootIdx]) :
       /\ WalkCallOk(call)
       /\ LET r == WalkFn(paths, call) IN
            /\ paths' = r.paths
            /\ walkErrMet' = (walkErrMet \/ call.err)
            /\ IF r.err = "nil"
               THEN /\ hpc' = "walk"
                    /\ hret' = hret
               ELSE /\ hpc' = "done"
                    /\ hret' = "walkErr"
  /\ walkCalls' = walkCalls + 1
  /\ UNCHANGED <<quiet, withSubcharts, roots, rootIdx, chartIdx, result, lintCalls,
                 hardErrCharts, message, block, failed, errorsOrWarnings, summary,
                 summaryPrinted>>
  /\ UNCHANGED bvars

\* filepath.Walk returned nil for roots[rootIdx]: on to the next root (line 27)
WalkReturn ==
  /\ hpc = "walk"
  /\ rootIdx <= Len(roots)
  /\ rootIdx' = rootIdx + 1
  /\ UNCHANGED <<quiet, withSubcharts, paths, roots, hpc, walkCalls, walkErrMet,
                 chartIdx, result, lintCalls, hardErrCharts, message, block, failed,
                 errorsOrWarnings, hret, summary, summaryPrinted>>
  /\ UNCHANGED bvars

\* Lines 43-51: the value merge, which fails or not
MergeValues ==
  /\ \/ hpc = "merge"
     \/ hpc = "walk" /\ rootIdx > Len(roots)
  /\ \E ok \in BOOLEAN :
       IF ok
       THEN /\ hpc' = "lint"
            /\ hret' = hret
       ELSE /\ hpc' = "done"
            /\ hret' = "mergeErr"
  /\ UNCHANGED <<quiet, withSubcharts, paths, roots, rootIdx, walkCalls, walkErrMet,
                 chartIdx, result, lintCalls, hardErrCharts, message, block, failed,
                 errorsOrWarnings, summary, summaryPrinted>>
  /\ UNCHANGED bvars

\* The path whose metadata the loop loads for the chart at paths[i] (line 54)
MetadataPath(ps, i) == ps[1]

\* A skip that looks at the quiet flag alone
SuppressedWhenQuiet(q, hasWarningsOrErrors) == q

\* Line 71: the chart's block is skipped
Suppressed(q, hasWarningsOrErrors) == q /\ ~hasWarningsOrErrors

\* A filter that writes informational messages with the quiet flag too
PrintsInfoAndAbove(q, msg) == ~q \/ msg.sev >= InfoSev

\* Line 88: the message is written
PrintsMessage(q, msg) == ~q \/ msg.sev > InfoSev

\* Lines 81-85: the raw errors, written only when there are no messages
ErrorLines(res) ==
  IF Len(res.Messages) = 0
  THEN [k \in 1..res.Errors |-> [line |-> "Error", n |-> k]]
  ELSE <<>>

\* Lines 87-91: the messages written, in order
RECURSIVE MessageLines(_, _)
MessageLines(q, msgs) ==
  IF msgs = <<>> THEN <<>>
  ELSE (IF PrintsMessage(q, Head(msgs))
        THEN <<[line |-> "Message", n |-> Head(msgs).text]>>
        ELSE <<>>) \o MessageLines(q, Tail(msgs))

\* A count of the charts with a message of error severity
FailedAfterErrorMessage(f, res) ==
  IF \E i \in 1..Len(res.Messages) : res.Messages[i].sev = 3 THEN f + 1 ELSE f

\* Lines 93-95
FailedAfter(f, res) == IF res.Errors # 0 THEN f + 1 ELSE f

\* One iteration of the lint loop (lines 53-101)
LintChart ==
  /\ hpc = "lint"
  /\ chartIdx <= Len(paths)
  /\ \E loaded \in {"ok", "metadataErr", "chartYamlErr"} :
       IF loaded # "ok"
       THEN /\ hpc' = "done"
            /\ hret' = loaded
            /\ UNCHANGED <<chartIdx, result, lintCalls, hardErrCharts, message, block,
                           failed, errorsOrWarnings>>
       ELSE \E res \in LintResults :
            LET hasWarningsOrErrors == HasWarningsOrErrors(res) IN
              /\ result' = res
              /\ lintCalls' = Append(lintCalls,
                                [path |-> paths[chartIdx],
                                 metadata |-> MetadataPath(paths, chartIdx)])
              /\ hardErrCharts' = IF res.Errors > 0 THEN hardErrCharts + 1
                                  ELSE hardErrCharts
              /\ errorsOrWarnings' = IF hasWarningsOrErrors THEN errorsOrWarnings + 1
                                     ELSE errorsOrWarnings
              /\ IF Suppressed(quiet, hasWarningsOrErrors)
                 THEN UNCHANGED <<message, block, failed>>
                 ELSE /\ message' = Append(message,
                                      [chart |-> chartIdx, path |-> paths[chartIdx]])
                      /\ block' = ErrorLines(res) \o MessageLines(quiet, res.Messages)
                      /\ failed' = FailedAfter(failed, res)
              /\ chartIdx' = chartIdx + 1
              /\ hpc' = "next"
              /\ hret' = hret
  /\ UNCHANGED <<quiet, withSubcharts, paths, roots, rootIdx, walkCalls, walkErrMet,
                 summary, summaryPrinted>>
  /\ UNCHANGED bvars

\* The loop goes to its next iteration (line 53); result is out of scope
NextChart ==
  /\ hpc = "next"
  /\ hpc' = "lint"
  /\ result' = NoResult
  /\ block' = <<>>
  /\ UNCHANGED <<quiet, withSubcharts, paths, roots, rootIdx, walkCalls, walkErrMet,
                 chartIdx, lintCalls, hardErrCharts, message, failed, errorsOrWarnings,
                 hret, summary, summaryPrinted>>
  /\ UNCHANGED bvars

\* Lines 103-112: the report, the summary and the return value
Finish ==
  /\ hpc = "lint"
  /\ chartIdx > Len(paths)
  /\ summary' = [linted |-> Len(paths), failed |-> failed]
  /\ hret' = IF failed > 0 THEN "summaryErr" ELSE "nil"
  /\ summaryPrinted' = (failed = 0 /\ (~quiet \/ errorsOrWarnings > 0))
  /\ hpc' = "done"
  /\ UNCHANGED <<quiet, withSubcharts, paths, roots, rootIdx, walkCalls, walkErrMet,
                 chartIdx, result, lintCalls, hardErrCharts, message, block, failed,
                 errorsOrWarnings>>
  /\ UNCHANGED bvars

\* ----------------------------------------------------------------- strings
\* A string is the sequence of its characters.
\* strings.Contains
Contains(s, substr) ==
  \E i \in 0..(Len(s) - Len(substr)) : SubSeq(s, i + 1, i + Len(substr)) = substr

\* The suffix test of lines 157, 182 and 226
IsYamlFile(name) == name.ext = ".yaml" \/ name.ext = ".yml"

\* The names engine.Render can give the rendered files
FileNames == {Nm("deploy", ".yaml"), Nm("job", ".yml"), Nm("NOTES", ".txt")}

NoFile == Nm("", "")

\* rand.String(12): the tokens a run can draw
Keys == {<<"k">>, <<"j">>}

\* ------------------------------------------------------------- yaml values
\* What yaml.Unmarshal puts into a map[string]any: nil, a string, a
\* map[string]any or a []any.
Nil == [t |-> "nil"]
Str(s) == [t |-> "str", s |-> s]
Map(m) == [t |-> "map", m |-> m]
List(l) == [t |-> "list", l |-> l]

EmptyMap == Map(<<>>)

\* m[k] of a map[string]any: nil when the key is missing
Get(v, k) == IF k \in DOMAIN v.m THEN v.m[k] ELSE Nil

\* v[k1].(map[string]any)[k2].(map[string]any)...: every step is a type
\* assertion, which panics on a value that is not a map
RECURSIVE Descend(_, _)
Descend(v, ks) ==
  IF ks = <<>> THEN [panic |-> FALSE, v |-> v]
  ELSE LET nxt == Get(v, Head(ks)) IN
         IF nxt.t # "map" THEN [panic |-> TRUE, v |-> Nil]
         ELSE Descend(nxt, Tail(ks))

\* Where each case of the switch looks for the pod spec
WorkloadPath == <<"spec", "template", "spec">>
PodPath == <<"spec">>
CronJobPath == <<"spec", "jobTemplate", "spec", "template", "spec">>

\* The switch of lintGlobalNodeSelector (lines 191-208)
SelectorPath(kind) ==
  IF kind \in {Str("Deployment"), Str("StatefulSet"), Str("ReplicaSet"), Str("Job")}
  THEN WorkloadPath
  ELSE IF kind = Str("Pod") THEN PodPath
  ELSE IF kind = Str("CronJob") THEN CronJobPath
  ELSE <<>>

\* The switch of lintGlobalImageRegistry (lines 235-289)
RegistryPath(kind) ==
  IF kind \in {Str("Deployment"), Str("StatefulSet"), Str("DaemonSet"),
               Str("ReplicaSet"), Str("Job")}
  THEN WorkloadPath
  ELSE IF kind = Str("Pod") THEN PodPath
  ELSE IF kind = Str("CronJob") THEN CronJobPath
  ELSE <<>>

\* yamlMap["metadata"].(map[string]any)["name"], an argument of every Printf
\* that reports a resource
ResourceName(yamlMap) == Descend(yamlMap, <<"metadata">>)

\* One case body of lintGlobalNodeSelector (lines 193-196, 199-202, 204-207)
SelectorCase(yamlMap, path, k, file) ==
  LET ps == Descend(yamlMap, path) IN
    IF ps.panic THEN [lines |-> <<>>, panic |-> TRUE]
    ELSE LET ns == Get(ps.v, "nodeSelector") IN
      IF ns # Nil /\ ns.t # "map" THEN [lines |-> <<>>, panic |-> TRUE]
      ELSE IF ns = Nil \/ Get(ns, "kubernetes.io/os") # Str(k)
      THEN LET md == ResourceName(yamlMap) IN
             IF md.panic THEN [lines |-> <<>>, panic |-> TRUE]
             ELSE [lines |-> << [rule |-> "nodeSelector", file |-> file,
                                 kind |-> Get(yamlMap, "kind"),
                                 name |-> Get(md.v, "name")] >>,
                   panic |-> FALSE]
      ELSE [lines |-> <<>>, panic |-> FALSE]

\* lintGlobalNodeSelector on one decoded document (lines 191-208)
SelectorDoc(yamlMap, k, file) ==
  LET path == SelectorPath(Get(yamlMap, "kind")) IN
    IF path = <<>> THEN [lines |-> <<>>, panic |-> FALSE]
    ELSE SelectorCase(yamlMap, path, k, file)

\* The image test of lines 240, 248, 258, 266, 276 and 284
ImageHonoursRegistry(img, k) == Contains(img, k)

\* One container loop of lintGlobalImageRegistry (lines 239-243 and alike):
\* the lines printed for the entries from index i on, until a panic
RECURSIVE ContainerLoop(_, _, _, _, _, _)
ContainerLoop(cs, i, init, yamlMap, k, file) ==
  IF i > Len(cs) THEN [lines |-> <<>>, panic |-> FALSE]
  ELSE LET c == cs[i] IN
    IF c.t # "map" THEN [lines |-> <<>>, panic |-> TRUE]
    ELSE IF Get(c, "image").t # "str" THEN [lines |-> <<>>, panic |-> TRUE]
    ELSE IF ImageHonoursRegistry(Get(c, "image").s, k)
    THEN ContainerLoop(cs, i + 1, init, yamlMap, k, file)
    ELSE LET md == ResourceName(yamlMap) IN
      IF md.panic THEN [lines |-> <<>>, panic |-> TRUE]
      ELSE LET rest == ContainerLoop(cs, i + 1, init, yamlMap, k, file) IN
        [lines |-> << [rule |-> "imageRegistry", file |-> file, init |-> init,
                       container |-> Get(c, "name"),
                       kind |-> Get(yamlMap, "kind"),
                       name |-> Get(md.v, "name")] >> \o rest.lines,
         panic |-> rest.panic]

\* One case body of lintGlobalImageRegistry (lines 237-252, 255-270, 273-288):
\* the init containers, then the containers
RegistryCase(yamlMap, path, k, file) ==
  LET ps == Descend(yamlMap, path) IN
    IF ps.panic THEN [lines |-> <<>>, panic |-> TRUE]
    ELSE LET ic == Get(ps.v, "initContainers")
             first == IF ic.t = "list"
                      THEN ContainerLoop(ic.l, 1, TRUE, yamlMap, k, file)
                      ELSE [lines |-> <<>>, panic |-> FALSE]
         IN IF first.panic THEN first
            ELSE LET cc == Get(ps.v, "containers")
                     second == IF cc.t = "list"
                               THEN ContainerLoop(cc.l, 1, FALSE, yamlMap, k, file)
                               ELSE [lines |-> <<>>, panic |-> FALSE]
                 IN [lines |-> first.lines \o second.lines, panic |-> second.panic]

\* lintGlobalImageRegistry on one decoded document (lines 235-289)
RegistryDoc(yamlMap, k, file) ==
  LET path == RegistryPath(Get(yamlMap, "kind")) IN
    IF path = <<>> THEN [lines |-> <<>>, panic |-> FALSE]
    ELSE RegistryCase(yamlMap, path, k, file)

\* --------------------------------------------------- rendered documents
\* The kinds a rendered document can have ("Service": one the rules ignore)
Kinds == {"Deployment", "StatefulSet", "DaemonSet", "ReplicaSet", "Job", "Pod",
          "CronJob", "Service"}

OtherKey(k) == CHOOSE o \in Keys : o # k

\* Images a template can render: the token in front, the token inside, no
\* token, the token of another run
ImagePool(k) == { k \o <<"a">>, <<"a">> \o k, <<"a">>, OtherKey(k) \o <<"a">> }

Digit == <<"1", "2", "3", "4">>

ContainerName(init, i) == Str(<<IF init THEN "i" ELSE "c", Digit[i]>>)

\* The entries a container list can hold at index i: with an image, or
\* without the image field
Containers(k, init, i) ==
  { Map(("name" :> ContainerName(init, i)) @@ ("image" :> Str(img))) : img \in ImagePool(k) }
    \cup { Map("name" :> ContainerName(init, i)) }

\* The values of an initContainers or containers field: missing, or a list
ContainerLists(k, init) ==
  {Nil} \cup
  UNION { { List(l) : l \in { f \in [1..n -> UNION {Containers(k, init, i) : i \in 1..n}] :
                               \A i \in 1..n : f[i] \in Containers(k, init, i) } } :
          n \in 0..MaxContainers }

\* The values of a nodeSelector field: missing, the injected entry, another
\* entry, no entry, or a string where a map is expected
NodeSelectors(k) ==
  { Nil, Map("kubernetes.io/os" :> Str(k)), Map("kubernetes.io/os" :> Str(OtherKey(k))),
    EmptyMap, Str(<<"a">>) }

\* A map without the keys whose value is nil
Fields(m) == Map([x \in {y \in DOMAIN m : m[y] # Nil} |-> m[x]])

\* The pod specs: those that vary the node selector, the init containers or
\* the containers
PodSpecs(k) ==
  { Fields("nodeSelector" :> ns) : ns \in NodeSelectors(k) }
    \cup { Fields("initContainers" :> ic) : ic \in ContainerLists(k, TRUE) }
    \cup { Fields("containers" :> cc) : cc \in ContainerLists(k, FALSE) }

\* Four of them: nothing set; the token honoured everywhere; the token
\* honoured nowhere; a container without an image
FewPodSpecs(k) ==
  { EmptyMap,
    Map(("nodeSelector" :> Map("kubernetes.io/os" :> Str(k)))
        @@ ("initContainers" :> List(<<Map(("name" :> ContainerName(TRUE, 1))
                                          @@ ("image" :> Str(k \o <<"a">>)))>>))
        @@ ("containers" :> List(<<Map(("name" :> ContainerName(FALSE, 1))
                                      @@ ("image" :> Str(<<"a">> \o k)))>>))),
    Map(("initContainers" :> List(<<Map(("name" :> ContainerName(TRUE, 1))
                                          @@ ("image" :> Str(<<"a">>)))>>))
        @@ ("containers" :> List(<<Map(("name" :> ContainerName(FALSE, 1))
                                      @@ ("image" :> Str(OtherKey(k) \o <<"a">>)))>>))),
    Map("containers" :> List(<<Map("name" :> ContainerName(FALSE, 1))>>)) }

\* The value of the document's spec field with the pod spec at a given depth;
\* "none": the document has no spec
Placements == {"none", "pod", "workload", "cronjob"}

Place(ps, placement) ==
  CASE placement = "none" -> Nil
    [] placement = "pod" -> ps
    [] placement = "workload" -> Map("template" :> Map("spec" :> ps))
    [] placement = "cronjob" ->
         Map("jobTemplate" :> Map("spec" :> Map("template" :> Map("spec" :> ps))))

\* Where a manifest of the kind keeps its pod spec
KindPlacement(kind) ==
  CASE kind = "Pod" -> "pod"
    [] kind = "CronJob" -> "cronjob"
    [] OTHER -> "workload"

Metadatas == { Nil, Map("name" :> Str("res")) }

Manifest(kind, md, spec) ==
  Fields(("kind" :> Str(kind)) @@ ("metadata" :> md) @@ ("spec" :> spec))

\* What a document of a rendered file can decode to: the empty document; every
\* kind with a few pod specs at every depth, with and without metadata; a
\* Deployment, a Pod and a CronJob with every pod spec where the kind keeps it
Docs(k) ==
  {EmptyMap}
    \cup { Manifest(kind, md, Place(ps, pl)) :
             kind \in Kinds, md \in Metadatas, ps \in FewPodSpecs(k), pl \in Placements }
    \cup { Manifest(kind, Map("name" :> Str("res")), Place(ps, KindPlacement(kind))) :
             kind \in {"Deployment", "Pod", "CronJob"}, ps \in PodSpecs(k) }

\* A piece of a rendered file between two "---": it decodes, or it does not
RawDocs(k) ==
  { [valid |-> FALSE, map |-> EmptyMap] } \cup { [valid |-> TRUE, map |-> d] : d \in Docs(k) }

NoDoc == [valid |-> TRUE, map |-> Nil]

\* yaml.Unmarshal into a map[string]any
Unmarshal(raw) == [err |-> ~raw.valid, map |-> raw.map]

\* ------------------------------------------------------------ rule A texts
TextChars == {"a", "k"}

Texts == UNION { [1..n -> TextChars] : n \in 0..MaxText }

ImageStrs == UNION { [1..n -> TextChars] : n \in 1..MaxImgLen }

\* engine.Render, as lintExtensionsImages reads it: file name -> content
RenderedTexts == UNION { [S -> Texts] : S \in SUBSET FileNames }

\* ---------------------------------------------------------- WithBuiltins
RuleOrder == <<"images", "imageRegistry", "nodeSelector">>

BuiltinsIdle ==
  /\ bret = "none"
  /\ headers = <<>>
  /\ rendered = {}
  /\ printed = <<>>
  /\ nImages = 0
  /\ imageIdx = 0
  /\ image = <<>>
  /\ files = <<>>
  /\ pending = {}
  /\ cur = NoFile
  /\ docIdx = 0
  /\ key = <<>>
  /\ doc = NoDoc

BuiltinsInit ==
  /\ bpc = "load"
  /\ BuiltinsIdle

\* Lines 116-128: the extension, its chart yaml and the chart load, or not
LoadExtension ==
  /\ bpc = "load"
  /\ \E outcome \in {"ok", "loadErr", "chartYamlErr", "chartLoadErr"} :
       IF outcome = "ok"
       THEN /\ \E n \in 0..MaxImages : nImages' = n
            /\ bpc' = "images"
            /\ bret' = bret
       ELSE /\ bpc' = "done"
            /\ bret' = outcome
            /\ nImages' = nImages
  /\ UNCHANGED <<headers, rendered, printed, imageIdx, image, files, pending, cur,
                 docIdx, key, doc>>
  /\ UNCHANGED hvars

\* A scan that does not pass over the files that are not yaml
ImageFoundInAnyFile(fs, img) ==
  \E name \in DOMAIN fs : Contains(fs[name], img)

\* Lines 155-163: the image is in the content of some .yaml or .yml file
ImageFound(fs, img) ==
  \E name \in DOMAIN fs : IsYamlFile(name) /\ Contains(fs[name], img)

\* Lines 154-166, for one image: what is printed
ImageLines(fs, img) ==
  IF ImageFound(fs, img) THEN <<>>
  ELSE << [rule |-> "images", line |-> "ERROR not found", image |-> img] >>

\* Lines 143-152: the header, then the warning and the return when no image
\* is declared, the rendering otherwise
ImagesBegin ==
  /\ bpc = "images"
  /\ headers' = Append(headers, "images")
  /\ IF nImages = 0
     THEN /\ printed' = << [rule |-> "images", line |-> "WARNING no images", image |-> <<>>] >>
          /\ bpc' = "registry"
          /\ UNCHANGED <<bret, rendered, files, imageIdx>>
     ELSE /\ rendered' = rendered \cup {"images"}
          /\ printed' = <<>>
          /\ \E ok \in BOOLEAN :
               IF ok
               THEN /\ \E fs \in RenderedTexts : files' = fs
                    /\ imageIdx' = 1
                    /\ bpc' = "imagesLoop"
                    /\ bret' = bret
               ELSE /\ bpc' = "done"
                    /\ bret' = "renderErr"
                    /\ UNCHANGED <<files, imageIdx>>
  /\ UNCHANGED <<nImages, image, pending, cur, docIdx, key, doc>>
  /\ UNCHANGED hvars

\* Lines 154-166: one declared image
ImagesStep ==
  /\ bpc = "imagesLoop"
  /\ imageIdx <= nImages
  /\ \E img \in ImageStrs :
       /\ image' = img
       /\ printed' = ImageLines(files, img)
  /\ imageIdx' = imageIdx + 1
  /\ UNCHANGED <<bpc, bret, headers, rendered, nImages, files, pending, cur, docIdx,
                 key, doc>>
  /\ UNCHANGED hvars

\* Line 167
ImagesReturn ==
  /\ bpc = "imagesLoop"
  /\ imageIdx > nImages
  /\ bpc' = "registry"
  /\ files' = <<>>
  /\ image' = <<>>
  /\ imageIdx' = 0
  /\ printed' = <<>>
  /\ UNCHANGED <<bret, headers, rendered, nImages, pending, cur, docIdx, key, doc>>
  /\ UNCHANGED hvars

\* A loop that goes on after a piece that does not decode
RegistryYamlSkippingUndecodable(raw, k, file) ==
  LET u == Unmarshal(raw) IN
    IF u.err THEN [lines |-> <<>>, end |-> "next"]
    ELSE LET r == RegistryDoc(u.map, k, file) IN
           [lines |-> r.lines, end |-> IF r.panic THEN "panic" ELSE "next"]

\* Lines 230-290: one piece of yamlArr in lintGlobalImageRegistry
RegistryYaml(raw, k, file) ==
  LET u == Unmarshal(raw) IN
    IF u.err THEN [lines |-> <<>>, end |-> "decodeErr"]
    ELSE LET r == RegistryDoc(u.map, k, file) IN
           [lines |-> r.lines, end |-> IF r.panic THEN "panic" ELSE "next"]

\* Lines 186-209: one piece of yamlArr in lintGlobalNodeSelector
SelectorYaml(raw, k, file) ==
  LET u == Unmarshal(raw) IN
    IF u.err THEN [lines |-> <<>>, end |-> "decodeErr"]
    ELSE LET r == SelectorDoc(u.map, k, file) IN
           [lines |-> r.lines, end |-> IF r.panic THEN "panic" ELSE "next"]

\* The start of rules B and C (lines 171-178, 215-222): the header, the
\* token, the rendering
RuleBegin(at, rule, loop) ==
  /\ bpc = at
  /\ headers' = Append(headers, rule)
  /\ rendered' = rendered \cup {rule}
  /\ printed' = <<>>
  /\ \E k \in Keys : key' = k
  /\ \E ok \in BOOLEAN :
       IF ok
       THEN /\ \E names \in SUBSET FileNames : pending' = names
            /\ bpc' = loop
            /\ bret' = bret
       ELSE /\ bpc' = "done"
            /\ bret' = "renderErr"
            /\ pending' = pending
  /\ UNCHANGED <<nImages, imageIdx, image, files, cur, docIdx, doc>>
  /\ UNCHANGED hvars

\* The range over files of rules B and C takes the next file, in the order the
\* map gives; a file that is neither .yaml nor .yml is passed over
\* (lines 180-185, 224-229)
RuleFile(loop) ==
  /\ bpc = loop
  /\ cur = NoFile
  /\ \E name \in pending :
       /\ pending' = pending \ {name}
       /\ IF IsYamlFile(name)
          THEN cur' = name /\ docIdx' = 1
          ELSE cur' = NoFile /\ docIdx' = docIdx
  /\ printed' = <<>>
  /\ doc' = NoDoc
  /\ UNCHANGED <<bpc, bret, headers, rendered, nImages, imageIdx, image, files, key>>
  /\ UNCHANGED hvars

\* One piece of the file being read is decoded and checked: that ends the rule
\* with an error, ends the process with a panic, or the loop goes on
RuleYaml(loop, after, raw, r) ==
  /\ bpc = loop
  /\ cur # NoFile
  /\ doc' = raw
  /\ printed' = r.lines
  /\ IF r.end = "next"
     THEN /\ bpc' = after
          /\ bret' = bret
     ELSE /\ bpc' = "done"
          /\ bret' = r.end
  /\ UNCHANGED <<headers, rendered, nImages, imageIdx, image, files, pending, cur,
                 docIdx, key>>
  /\ UNCHANGED hvars

\* The range over yamlArr goes to the next piece, or is over
RuleNext(loop, after) ==
  /\ bpc = after
  /\ \E more \in BOOLEAN :
       /\ more => docIdx < MaxDocs
       /\ IF more THEN cur' = cur /\ docIdx' = docIdx + 1
                  ELSE cur' = NoFile /\ docIdx' = 0
  /\ bpc' = loop
  /\ doc' = NoDoc
  /\ printed' = <<>>
  /\ UNCHANGED <<bret, headers, rendered, nImages, imageIdx, image, files, pending, key>>
  /\ UNCHANGED hvars

\* The rule returns nil (lines 211, 292)
RuleReturn(loop, next, ret) ==
  /\ bpc = loop
  /\ cur = NoFile
  /\ pending = {}
  /\ bpc' = next
  /\ bret' = ret
  /\ printed' = <<>>
  /\ doc' = NoDoc
  /\ key' = <<>>
  /\ UNCHANGED <<headers, rendered, nImages, imageIdx, image, files, pending, cur, docIdx>>
  /\ UNCHANGED hvars

RegistryBegin == RuleBegin("registry", "imageRegistry", "registryLoop")

RegistryFile == RuleFile("registryLoop")

RegistryStep ==
  /\ bpc = "registryLoop"
  /\ \E raw \in RawDocs(key) :
       RuleYaml("registryLoop", "registryDoc", raw, RegistryYaml(raw, key, cur))

RegistryNext == RuleNext("registryLoop", "registryDoc")

RegistryReturn == RuleReturn("registryLoop", "selector", bret)

SelectorBegin == RuleBegin("selector", "nodeSelector", "selectorLoop")

SelectorFile == RuleFile("selectorLoop")

SelectorStep ==
  /\ bpc = "selectorLoop"
  /\ \E raw \in RawDocs(key) :
       RuleYaml("selectorLoop", "selectorDoc", raw, SelectorYaml(raw, key, cur))

SelectorNext == RuleNext("selectorLoop", "selectorDoc")

\* lintGlobalNodeSelector returns nil, and WithBuiltins does (line 139)
SelectorReturn == RuleReturn("selectorLoop", "done", "nil")

HelmIdle ==
  /\ quiet = FALSE
  /\ withSubcharts = FALSE
  /\ paths = <<>>
  /\ roots = <<>>
  /\ rootIdx = 1
  /\ walkCalls = 0
  /\ walkErrMet = FALSE
  /\ chartIdx = 1
  /\ result = NoResult
  /\ lintCalls = <<>>
  /\ hardErrCharts = 0
  /\ message = <<>>
  /\ block = <<>>
  /\ failed = 0
  /\ errorsOrWarnings = 0
  /\ hret = "none"
  /\ summary = NoSummary
  /\ summaryPrinted = FALSE

BuiltinsNext ==
  \/ LoadExtension
  \/ ImagesBegin
  \/ ImagesStep
  \/ ImagesReturn
  \/ RegistryBegin
  \/ RegistryFile
  \/ RegistryStep
  \/ RegistryNext
  \/ RegistryReturn
  \/ SelectorBegin
  \/ SelectorFile
  \/ SelectorStep
  \/ SelectorNext
  \/ SelectorReturn

\* WithBuiltins is called; WithHelm is not running
InitBuiltins == BuiltinsInit /\ hpc = "idle" /\ HelmIdle

SpecBuiltins == InitBuiltins /\ [][BuiltinsNext]_vars

HelmNext ==
  \/ WalkCall
  \/ WalkReturn
  \/ MergeValues
  \/ LintChart
  \/ NextChart
  \/ Finish

\* WithHelm is called; WithBuiltins is not running
InitHelm == HelmInit /\ bpc = "idle" /\ BuiltinsIdle

SpecHelm == InitHelm /\ [][HelmNext]_vars

\* ================================================================ WithHelm
\* The loop has just linted a chart, the chart LastChart of the list
Linted == hpc = "next"

LastChart == Len(lintCalls)

\* The block of that chart is in the report
BlockWritten ==
  /\ Linted
  /\ message # <<>>
  /\ message[Len(message)].chart = LastChart

\* A result has a warning or an error: a message of warning or error
\* severity, or a raw error
HasWarningOrError(res) ==
  \/ res.Errors > 0
  \/ \E i \in 1..Len(res.Messages) : res.Messages[i].sev \in {2, 3}

\* WithHelm returned from line 107 or line 112: merge and metadata loads succeeded
HelmRanThrough == hret \in {"nil", "summaryErr"}

\* C1: when the value merge and the metadata loads succeed, WithHelm lints
\* every chart of the path list once and in list order, whatever the results;
\* it returns an error iff some chart's result has hard errors, and the
\* summary counts the charts of the list and the charts with hard errors.
C1_LintsAllAndCountsFailures ==
  /\ Len(lintCalls) <= Len(paths)
  /\ \A i \in 1..Len(lintCalls) : lintCalls[i].path = paths[i]
  /\ hpc = "lint" => Len(lintCalls) = chartIdx - 1
  /\ HelmRanThrough =>
       /\ Len(lintCalls) = Len(paths)
       /\ (hret = "summaryErr") <=> (hardErrCharts > 0)
       /\ summary = [linted |-> Len(paths), failed |-> hardErrCharts]

\* C1 witness: two charts, the first with a hard error and the second without;
\* the summary is "2 chart(s) linted, 1 chart(s) failed" and an error is returned
C1_Witness ==
  /\ hret = "summaryErr"
  /\ summary = [linted |-> 2, failed |-> 1]
  /\ Len(lintCalls) = 2
  /\ errorsOrWarnings = 1
  /\ quiet

\* C2: with the quiet flag the block of a chart is in the report iff the
\* chart's result has a warning or an error; without it every chart's block is.
C2_QuietSuppression ==
  /\ (Linted /\ quiet) => (BlockWritten <=> HasWarningOrError(result))
  /\ (Linted /\ ~quiet) => BlockWritten
  /\ ~quiet => /\ Len(message) = Len(lintCalls)
               /\ \A i \in 1..Len(message) :
                    message[i] = [chart |-> i, path |-> paths[i]]

\* C2 witness: quiet, a chart with only an informational message is skipped
\* after a chart with a warning was reported
C2_Witness ==
  /\ quiet
  /\ Linted
  /\ LastChart = 2
  /\ Len(message) = 1
  /\ message[1].chart = 1
  /\ result.Messages # <<>>
  /\ ~HasWarningOrError(result)

\* The lines of the latest block that carry a message, and those that carry a
\* raw error
MessageLinesOf(b) == SelectSeq(b, LAMBDA l : l.line = "Message")
ErrorLinesOf(b) == SelectSeq(b, LAMBDA l : l.line = "Error")

Increasing(ls) == \A i, j \in 1..Len(ls) : i < j => ls[i].n < ls[j].n

\* C9 as claimed: in every block that is written, with or without the quiet
\* flag, every message at or above informational severity is written, in the
\* result's order, and the raw errors only when the result has no messages.
C9_EveryInfoMessageWritten ==
  BlockWritten =>
    /\ \A i \in 1..Len(result.Messages) :
         result.Messages[i].sev >= InfoSev =>
           \E j \in 1..Len(MessageLinesOf(block)) : MessageLinesOf(block)[j].n = i
    /\ Increasing(MessageLinesOf(block))
    /\ ErrorLinesOf(block) # <<>> => result.Messages = <<>>

\* C9 as amended: in every block that is written, without the quiet flag every
\* message of the result is written, with the quiet flag exactly the messages
\* above informational severity; in the result's order; and the raw errors are
\* written, all of them, exactly when the result has no messages.
C9_MessagesWritten ==
  BlockWritten =>
    /\ \A i \in 1..Len(result.Messages) :
         (\E j \in 1..Len(MessageLinesOf(block)) : MessageLinesOf(block)[j].n = i)
           <=> (~quiet \/ result.Messages[i].sev > InfoSev)
    /\ \A j \in 1..Len(MessageLinesOf(block)) :
         MessageLinesOf(block)[j].n \in 1..Len(result.Messages)
    /\ Increasing(MessageLinesOf(block))
    /\ Len(ErrorLinesOf(block)) = IF result.Messages = <<>> THEN result.Errors ELSE 0
    /\ Len(block) = Len(MessageLinesOf(block)) + Len(ErrorLinesOf(block))

\* C9 witness: quiet, a block with an informational message left out and the
\* warning after it written
C9_Witness ==
  /\ quiet
  /\ BlockWritten
  /\ Len(result.Messages) = 2
  /\ result.Messages[1].sev = InfoSev
  /\ result.Messages[2].sev = 2
  /\ block = << [line |-> "Message", n |-> 2] >>

\* C10: every helm.Lint call gets the chart's own path and the metadata loaded
\* from that same path.
C10_MetadataOfOwnPath ==
  \A i \in 1..Len(lintCalls) : lintCalls[i].metadata = lintCalls[i].path

\* C7 as claimed: an error met while walking a root's charts directory aborts:
\* WithHelm returns that error and lints no chart.
C7_WalkErrorAborts ==
  walkErrMet =>
    /\ lintCalls = <<>>
    /\ hpc \in {"walk", "done"}
    /\ hpc = "done" => hret = "walkErr"

\* C7 as amended: an error met while walking a root's charts directory is not
\* propagated: the callback returns nil for it, WithHelm never returns a walk
\* error, the walk goes on with the next roots, and when the value merge and
\* the metadata loads succeed every chart of the list is linted.
C7_WalkErrorsIgnored ==
  /\ hret # "walkErr"
  /\ (walkErrMet /\ hpc = "walk") => hret = "none"
  /\ (walkErrMet /\ HelmRanThrough) =>
       /\ Len(lintCalls) = Len(paths)
       /\ summary.linted = Len(paths)

\* C7 witness: an error was met in the walk and a chart was linted all the same
C7_Witness ==
  /\ walkErrMet
  /\ HelmRanThrough
  /\ Len(lintCalls) >= 1

\* ============================================================ WithBuiltins
\* sub is a literal substring of s
IsSubstring(sub, s) ==
  \E i \in 0..Len(s) : \E j \in i..Len(s) : SubSeq(s, i + 1, j) = sub

\* C6: with no declared image, exactly one warning and no rendering and no
\* scan; otherwise every declared image is reported exactly once when it is a
\* substring of the content of no rendered .yaml/.yml file, and not at all when
\* it is a substring of the content of one.
C6_ImagesRule ==
  /\ nImages = 0 =>
       /\ "images" \notin rendered
       /\ files = <<>>
       /\ bpc # "imagesLoop"
       /\ bpc = "registry" =>
            printed = << [rule |-> "images", line |-> "WARNING no images", image |-> <<>>] >>
  /\ bpc = "imagesLoop" =>
       /\ "images" \in rendered
       /\ imageIdx \in 1..(nImages + 1)
       /\ imageIdx = 1 => printed = <<>>
       /\ imageIdx > 1 =>
            LET inSome == \E name \in DOMAIN files :
                            /\ name.ext \in {".yaml", ".yml"}
                            /\ IsSubstring(image, files[name])
            IN printed = IF inSome THEN <<>>
                         ELSE << [rule |-> "images", line |-> "ERROR not found",
                                  image |-> image] >>

\* C6 witness: the second declared image is only in a file that is not yaml,
\* beside a yaml file with other content, and is reported
C6_Witness ==
  /\ bpc = "imagesLoop"
  /\ imageIdx = 3
  /\ Len(printed) = 1
  /\ \E name \in DOMAIN files : name.ext = ".txt" /\ Contains(files[name], image)
  /\ \E name \in DOMAIN files : name.ext = ".yml" /\ files[name] # <<>>

\* C6 second witness: no image declared, the warning printed
C6_WitnessNoImages ==
  /\ nImages = 0
  /\ bpc = "registry"
  /\ Len(printed) = 1

\* The rule whose loop is running or ended last
CurrentRule == IF headers = <<>> THEN "none" ELSE headers[Len(headers)]

\* A document was decoded by the latest step
Decoded == doc # NoDoc

\* C8: in rules B and C a document that fails to decode makes the rule return
\* the error at once, nothing printed for it; WithBuiltins returns that error
\* and runs no later rule of the order images, imageRegistry, nodeSelector.
C8_DecodeFailureAborts ==
  /\ headers = SubSeq(RuleOrder, 1, Len(headers))
  /\ (Decoded /\ ~doc.valid) =>
       /\ bpc = "done"
       /\ bret = "decodeErr"
       /\ printed = <<>>
       /\ CurrentRule \in {"imageRegistry", "nodeSelector"}
  /\ bret = "decodeErr" => (bpc = "done" /\ Decoded /\ ~doc.valid)
  /\ bpc = "done" => (bret # "none" /\ pending \subseteq FileNames)

\* C8 witness: the second document of a file fails to decode in rule C, with a
\* file still to visit; rule B has not run
C8_Witness ==
  /\ bret = "decodeErr"
  /\ headers = <<"images", "imageRegistry">>
  /\ docIdx = 2
  /\ pending # {}

\* C3: when the extension loads, the templates of every rule render and every
\* document decodes, WithBuiltins returns no error and all three rules run to
\* their end, whatever they print.
C3_FindingsAdvisory ==
  (bpc = "done" /\ bret \notin {"loadErr", "chartYamlErr", "chartLoadErr", "renderErr",
                                "decodeErr"})
    => (bret = "nil" /\ headers = RuleOrder)

\* v[k1][k2]... for the claims: nil when a key is missing on the way
RECURSIVE Lookup(_, _)
Lookup(v, ks) ==
  IF ks = <<>> THEN v
  ELSE IF v.t # "map" THEN Nil
  ELSE Lookup(Get(v, Head(ks)), Tail(ks))

KindOf(m) == IF Lookup(m, <<"kind">>).t = "str" THEN Lookup(m, <<"kind">>).s ELSE "none"

\* Where the claims C4 and C5 put the pod spec of a kind
ClaimedPath(kind) ==
  CASE kind \in {"Deployment", "StatefulSet", "DaemonSet", "ReplicaSet", "Job"} -> WorkloadPath
    [] kind = "Pod" -> PodPath
    [] kind = "CronJob" -> CronJobPath
    [] OTHER -> <<>>

EntriesOf(v) == IF v.t = "list" THEN v.l ELSE <<>>

\* The image of the entry does not contain the token
LacksToken(c, k) ==
  LET img == Lookup(c, <<"image">>) IN
    img.t # "str" \/ ~IsSubstring(k, img.s)

\* The findings among ls that name the container, the kind and the resource
FindingsFor(ls, c, init, m) ==
  { j \in 1..Len(ls) :
      /\ ls[j].rule = "imageRegistry"
      /\ ls[j].init = init
      /\ ls[j].container = Lookup(c, <<"name">>)
      /\ ls[j].kind = Lookup(m, <<"kind">>)
      /\ ls[j].name = Lookup(m, <<"metadata", "name">>) }

RegistryFindingsRight(m, ls, k) ==
  LET ps == Lookup(m, ClaimedPath(KindOf(m))) IN
    ClaimedPath(KindOf(m)) # <<>> =>
      \A init \in BOOLEAN :
        LET cs == EntriesOf(Lookup(ps, IF init THEN <<"initContainers">>
                                               ELSE <<"containers">>)) IN
          \A i \in 1..Len(cs) :
            Cardinality(FindingsFor(ls, cs[i], init, m))
              = IF LacksToken(cs[i], k) THEN 1 ELSE 0

\* Rule C, or rule B, has just taken a document that decoded
RegistryTookDoc == CurrentRule = "imageRegistry" /\ Decoded /\ doc.valid
SelectorTookDoc == CurrentRule = "nodeSelector" /\ Decoded /\ doc.valid

\* C4: for every document of a handled kind and every entry of the
\* initContainers and containers of its pod spec, rule C prints exactly one
\* finding naming the container, the kind and the resource if the entry's
\* image does not contain the token, and none if it does.
C4_RegistryFindings ==
  RegistryTookDoc => RegistryFindingsRight(doc.map, printed, key)

\* What holds of rule C: the same for every document it gets through
RegistryFindingsUnlessPanic ==
  (RegistryTookDoc /\ bret # "panic") => RegistryFindingsRight(doc.map, printed, key)

\* The kinds claim C5 gives rule B
SelectorKinds == {"Deployment", "StatefulSet", "ReplicaSet", "Job", "Pod", "CronJob"}

SelectorFindingsRight(m, ls, k) ==
  LET kind == KindOf(m)
      ns == Lookup(m, ClaimedPath(kind) \o <<"nodeSelector">>)
      due == /\ kind \in SelectorKinds
             /\ \/ ns = Nil
                \/ Lookup(ns, <<"kubernetes.io/os">>) # Str(k)
      reports == { j \in 1..Len(ls) :
                     /\ ls[j].rule = "nodeSelector"
                     /\ ls[j].kind = Lookup(m, <<"kind">>)
                     /\ ls[j].name = Lookup(m, <<"metadata", "name">>) }
  IN /\ due <=> reports # {}
     /\ Cardinality(reports) = Len(ls)
     /\ Len(ls) <= 1

\* C5: a document of kind Deployment, StatefulSet, ReplicaSet, Job, Pod or
\* CronJob is reported by rule B, by kind and name, iff the nodeSelector of its
\* pod spec is absent or its kubernetes.io/os entry is not the token; a
\* document of another kind, and an empty document, is never reported.
C5_SelectorFindings ==
  SelectorTookDoc => SelectorFindingsRight(doc.map, printed, key)

\* What holds of rule B: the same for every document it gets through
SelectorFindingsUnlessPanic ==
  (SelectorTookDoc /\ bret # "panic") => SelectorFindingsRight(doc.map, printed, key)

====
